---- MODULE Spec2Model ----
(* Model of the documentation-index pipeline (.github/scripts/index.py)   *)
(* and of RW.Utils.aggregate (libraries/RW/Utils/utils.py).               *)
(* Python strings are TLA+ strings; Python dicts are sequences of         *)
(* <<key, value>> pairs in insertion order.                               *)
EXTENDS Integers, Sequences, FiniteSets, TLC

(***************************************************************************)
(* Bounds                                                                  *)
(***************************************************************************)
MaxRepos == 2
MaxColumn == 3
MaxValue == 9

(***************************************************************************)
(* Python str methods                                                      *)
(***************************************************************************)
Char(s, i) == SubSeq(s, i, i)

\* s.endswith(suf)
EndsWith(s, suf) ==
    /\ Len(suf) <= Len(s)
    /\ SubSeq(s, Len(s) - Len(suf) + 1, Len(s)) = suf

StartsWith(s, pre) ==
    /\ Len(pre) <= Len(s)
    /\ SubSeq(s, 1, Len(pre)) = pre

\* sub in s
Contains(s, sub) ==
    \E i \in 1..(Len(s) - Len(sub) + 1) : SubSeq(s, i, i + Len(sub) - 1) = sub

\* s.find(sub) + 1, 0 when absent
Find(s, sub) ==
    IF Contains(s, sub)
    THEN CHOOSE i \in 1..(Len(s) - Len(sub) + 1) :
            /\ SubSeq(s, i, i + Len(sub) - 1) = sub
            /\ \A j \in 1..(i - 1) : SubSeq(s, j, j + Len(sub) - 1) # sub
    ELSE 0

\* s.split(sep), sep non-empty
RECURSIVE Split(_, _)
Split(s, sep) ==
    LET i == Find(s, sep)
    IN IF i = 0 THEN <<s>>
       ELSE <<SubSeq(s, 1, i - 1)>> \o Split(SubSeq(s, i + Len(sep), Len(s)), sep)

\* sep.join(parts)
RECURSIVE Join(_, _)
Join(sep, parts) ==
    IF Len(parts) = 0 THEN ""
    ELSE IF Len(parts) = 1 THEN parts[1]
    ELSE parts[1] \o sep \o Join(sep, Tail(parts))

IsSpace(c) == c \in {" ", "\t"}

RECURSIVE LStrip(_)
LStrip(s) == IF Len(s) > 0 /\ IsSpace(Char(s, 1)) THEN LStrip(Tail(s)) ELSE s

RECURSIVE RStrip(_)
RStrip(s) ==
    IF Len(s) > 0 /\ IsSpace(Char(s, Len(s)))
    THEN RStrip(SubSeq(s, 1, Len(s) - 1)) ELSE s

\* s.strip()
Strip(s) == LStrip(RStrip(s))

\* s.removesuffix(suf)
RemoveSuffix(s, suf) ==
    IF Len(suf) > 0 /\ EndsWith(s, suf) THEN SubSeq(s, 1, Len(s) - Len(suf)) ELSE s

\* parts[-n:]
LastN(parts, n) ==
    IF Len(parts) <= n THEN parts ELSE SubSeq(parts, Len(parts) - n + 1, Len(parts))

(***************************************************************************)
(* os.path                                                                 *)
(***************************************************************************)
\* os.path.join(a, b) for a relative b
PathJoin(a, b) == IF a = "" \/ EndsWith(a, "/") THEN a \o b ELSE a \o "/" \o b

\* posixpath.normpath on the components of an absolute path
RECURSIVE NormParts(_, _)
NormParts(todo, done) ==
    IF Len(todo) = 0 THEN done
    ELSE LET c == Head(todo)
         IN IF c = "" \/ c = "." THEN NormParts(Tail(todo), done)
            ELSE IF c = ".."
                 THEN NormParts(Tail(todo),
                                IF Len(done) = 0 THEN done
                                ELSE SubSeq(done, 1, Len(done) - 1))
                 ELSE NormParts(Tail(todo), Append(done, c))

\* os.path.abspath(p) for an absolute p
AbsPath(p) == "/" \o Join("/", NormParts(Split(p, "/"), <<>>))


(***************************************************************************)
(* Python dict: a sequence of <<key, value>> pairs in insertion order      *)
(***************************************************************************)
KeySet(d) == {d[k][1] : k \in 1..Len(d)}

HasKey(d, key) == key \in KeySet(d)

\* d[key], for a key of d
Get(d, key) == d[CHOOSE k \in 1..Len(d) : d[k][1] = key][2]

\* d[key] = val
DictSet(d, key, val) ==
    IF HasKey(d, key)
    THEN [k \in 1..Len(d) |-> IF d[k][1] = key THEN <<key, val>> ELSE d[k]]
    ELSE Append(d, <<key, val>>)

Range(s) == {s[k] : k \in 1..Len(s)}

\* the sequences over S of length lo..hi
SeqsOf(S, lo, hi) == UNION {[1..n -> S] : n \in lo..hi}

(***************************************************************************)
(* Environment: the configuration file, the remote repositories, the       *)
(* local filesystem and the robot suite loader                             *)
(***************************************************************************)
\* the entries index_config["repos"] is made of: local directory name, URL
RepoEntries ==
    { <<"a", "https://example.com/org/repo.git">>,
      <<"b", "https://example.com/org/other">>,
      <<"b", "https://example.com/org/x.git.git">>,
      <<".", "https://example.com/org/other">>,
      <<"..", "https://example.com/org/repo.git">>,
      <<"a/b", "https://example.com/org/repo.git">> }

\* index_config["robot_file_pattern"]: the suffixes of its groups, in order
SearchPatterns ==
    { << >>,
      <<".robot">>,
      <<"tests">>,
      <<".robot", "tests">>,
      <<"tests", ".robot">>,
      <<".robot", "robot">>,
      <<".robot", ".robot">> }

\* the working tree a remote repository checks out, relative to its root
RepoFiles(url) ==
    IF url = "https://example.com/org/repo.git"
    THEN {"group/bundle/suite.robot",
          "codebundles/k8s-deployment-healthcheck/sli.robot",
          "codebundles/k8s-deployment-healthcheck/robot_tests/sli.robot",
          "codebundles/aws-s3/bad.robot"}
    ELSE IF url = "https://example.com/org/other"
    THEN {"group/gcp-bundle/runbook.robot",
          "lib/robot_tests"}
    ELSE {"lib/empty.robot"}

\* the files git clone url dir leaves behind when it exits 0
Cloned(dir, url) ==
    {AbsPath(PathJoin(dir, ".git/HEAD"))}
        \cup {AbsPath(PathJoin(dir, f)) : f \in RepoFiles(url)}

\* the filesystems the script may start on: nothing under /tmp, or earlier
\* working copies /tmp/a and /tmp/b and a stray suite in the root directory
InitialTrees ==
    { {},
      {"/top.robot"}
        \cup Cloned("/tmp/a", "https://example.com/org/repo.git")
        \cup Cloned("/tmp/b", "https://example.com/org/other") }

\* the exit codes of git clone (128: git's fatal error)
ExitCodes == {0, 128}

\* os.path.exists(p): the filesystem is its set of regular files plus / and /tmp
PathExists(tree, p) ==
    LET q == AbsPath(p)
    IN \/ q \in {"/", "/tmp"}
       \/ q \in tree
       \/ \E f \in tree : StartsWith(f, q \o "/")

\* robot.api.TestSuite.from_file_system(path): what the loader makes of each
\* file; "error" stands for any exception it raises
TestSuite(path) ==
    IF EndsWith(path, "bad.robot") THEN [status |-> "error"]
    ELSE IF EndsWith(path, "suite.robot")
    THEN [status |-> "ok",
          keywords |-> << <<"kw1", "kw2">>, <<"kw3">> >>,
          tests |-> << [name |-> "t1", tags |-> "[a]", doc |-> "td"] >>,
          metadata |-> << <<"Canonical Name", "Bundle">>,
                          <<"Supports", "k8s, aws ,gcp">> >>,
          doc |-> "Suite doc"]
    ELSE IF EndsWith(path, "runbook.robot")
    THEN [status |-> "ok",
          keywords |-> << >>,
          tests |-> << [name |-> "t1", tags |-> "[]", doc |-> ""] >>,
          metadata |-> << <<"Canonical Name", "zz-Name">> >>,
          doc |-> "Runbook doc"]
    ELSE IF EndsWith(path, "robot_tests")
    THEN [status |-> "ok",
          keywords |-> << >>,
          tests |-> << >>,
          metadata |-> << <<"Supports", " a,,b-c \t">> >>,
          doc |-> "Library doc"]
    ELSE IF EndsWith(path, "empty.robot")
    THEN [status |-> "ok",
          keywords |-> << >>,
          tests |-> << >>,
          metadata |-> << <<"Supports", "">> >>,
          doc |-> ""]
    ELSE [status |-> "ok",
          keywords |-> << <<"kw1">> >>,
          tests |-> << [name |-> "t1", tags |-> "[]", doc |-> ""] >>,
          metadata |-> << >>,
          doc |-> "Checks deployment"]

(***************************************************************************)
(* RW.Utils.aggregate                                                      *)
(***************************************************************************)
LowerCase == "abcdefghijklmnopqrstuvwxyz"
UpperCase == "ABCDEFGHIJKLMNOPQRSTUVWXYZ"

\* c.upper() and c.lower() of one character
Upper(c) == IF Contains(LowerCase, c) THEN Char(UpperCase, Find(LowerCase, c)) ELSE c
Lower(c) == IF Contains(UpperCase, c) THEN Char(LowerCase, Find(UpperCase, c)) ELSE c

RECURSIVE LowerAll(_)
LowerAll(s) == IF Len(s) = 0 THEN "" ELSE Lower(Char(s, 1)) \o LowerAll(Tail(s))

\* s.capitalize()
Capitalize(s) == IF Len(s) = 0 THEN "" ELSE Upper(Char(s, 1)) \o LowerAll(Tail(s))

\* sum(column): the left fold from 0
RECURSIVE PySum(_, _)
PySum(column, acc) ==
    IF Len(column) = 0 THEN acc ELSE PySum(Tail(column), acc + Head(column))

\* max(column) and min(column) of a non-empty column: keep the best seen so far
RECURSIVE PyMax(_, _)
PyMax(column, best) ==
    IF Len(column) = 0 THEN best
    ELSE PyMax(Tail(column), IF Head(column) > best THEN Head(column) ELSE best)

RECURSIVE PyMin(_, _)
PyMin(column, best) ==
    IF Len(column) = 0 THEN best
    ELSE PyMin(Tail(column), IF Head(column) < best THEN Head(column) ELSE best)

Abs(n) == IF n < 0 THEN 0 - n ELSE n

RECURSIVE Gcd(_, _)
Gcd(m, n) == IF n = 0 THEN m ELSE Gcd(n, m % n)

\* values: an int n is num = n, den = 1; a float is the fraction num/den in
\* lowest terms (the rounding of the quotient to a double is not modelled)
IntValue(n) == [kind |-> "int", num |-> n, den |-> 1]
NoneValue == [kind |-> "None", num |-> 0, den |-> 1]
Raised(exc) == [kind |-> exc, num |-> 0, den |-> 1]

\* a // b: floor division
FloorDiv(a, b) ==
    IF b = 0 THEN Raised("ZeroDivisionError")
    ELSE [kind |-> "int", num |-> a \div b, den |-> 1]

\* a / b on ints: true division, a float
TrueDiv(a, b) ==
    IF b = 0 THEN Raised("ZeroDivisionError")
    ELSE LET g == Gcd(Abs(a), Abs(b))
         IN [kind |-> "float", num |-> a \div g, den |-> b \div g]

aggregate(method0, column) ==
    LET method == Capitalize(method0)
    IN IF method = "Max"
       THEN IF Len(column) = 0 THEN Raised("ValueError")
            ELSE IntValue(PyMax(Tail(column), Head(column)))
       ELSE IF method = "Average" THEN TrueDiv(PySum(column, 0), Len(column))
       ELSE IF method = "Minimum"
       THEN IF Len(column) = 0 THEN Raised("ValueError")
            ELSE IntValue(PyMin(Tail(column), Head(column)))
       ELSE IF method = "Sum" THEN IntValue(PySum(column, 0))
       ELSE IF method = "First"
       THEN IF Len(column) = 0 THEN Raised("IndexError") ELSE IntValue(column[1])
       ELSE IF method = "Last"
       THEN IF Len(column) = 0 THEN Raised("IndexError")
            ELSE IntValue(column[Len(column)])
       ELSE NoneValue

\* the method names and columns aggregate is called with
Methods == {"Max", "Average", "Minimum", "Sum", "First", "Last",
            "max", "AVERAGE", "Median"}
Columns == SeqsOf((0 - 1)..MaxValue, 0, MaxColumn)

NotCalled == [method |-> "", column |-> << >>, called |-> FALSE, result |-> NoneValue]

(***************************************************************************)
(* State                                                                   *)
(***************************************************************************)
VARIABLES
    pc,                  \* the statement of __main__ that runs next
    repo_urls,           \* index_config["repos"]
    search_patterns,     \* index_config["robot_file_pattern"], its values in order
    tree,                \* the regular files of the filesystem
    walk_order,          \* the order in which the filesystem lists its entries
    idx,                 \* position of the running for loop
    pat,                 \* position of the outer loop of get_codebundle_paths
    tmp_dir_list,        \* clone_repos: the list being built, then its result
    clone_calls,         \* the subprocess.call invocations made so far
    matching_filepaths,  \* get_codebundle_paths: root -> list of paths
    codebundle_path_list,
    parse_calls,         \* the parse_codebundle calls made so far
    parse_data,          \* parse_codebundles: the dict being built, then parse_results
    organized_results,   \* organize_results: the list being built
    returned,            \* __main__'s organized_results once the call returned
    error,               \* the exception that ended the run, "" if none
    agg                  \* a call of RW.Utils.aggregate: arguments and outcome

vars == <<pc, repo_urls, search_patterns, tree, walk_order, idx, pat, tmp_dir_list,
          clone_calls, matching_filepaths, codebundle_path_list, parse_calls,
          parse_data, organized_results, returned, error, agg>>

\* the repo mappings of at most MaxRepos entries (dict keys are unique)
RepoMappings ==
    {m \in SeqsOf(RepoEntries, 0, MaxRepos) :
        \A k1, k2 \in 1..Len(m) : m[k1][1] = m[k2][1] => k1 = k2}

Init ==
    /\ pc = "clone_repos"
    /\ repo_urls \in RepoMappings
    /\ search_patterns \in SearchPatterns
    /\ tree \in InitialTrees
    /\ walk_order \in {"forward", "reverse"}
    /\ idx = 1
    /\ pat = 1
    /\ tmp_dir_list = << >>
    /\ clone_calls = << >>
    /\ matching_filepaths = << >>
    /\ codebundle_path_list = << >>
    /\ parse_calls = << >>
    /\ parse_data = << >>
    /\ organized_results = << >>
    /\ returned = [bound |-> FALSE, rows |-> << >>]
    /\ error = ""
    /\ agg = NotCalled

(***************************************************************************)
(* clone_repos                                                             *)
(***************************************************************************)
\* CloneDirectory one level deeper
CloneDirectoryNested(tmp_dir_name) == "/tmp/repos/" \o tmp_dir_name

CloneDirectory(tmp_dir_name) == "/tmp/" \o tmp_dir_name

\* one iteration whose directory exists: append and continue
CloneSkip ==
    /\ pc = "clone_repos"
    /\ idx <= Len(repo_urls)
    /\ LET clone_directory == CloneDirectory(repo_urls[idx][1])
       IN /\ PathExists(tree, clone_directory)
          /\ tmp_dir_list' = Append(tmp_dir_list, clone_directory)
    /\ idx' = idx + 1
    /\ UNCHANGED <<pc, repo_urls, search_patterns, tree, pat, clone_calls,
                   matching_filepaths, codebundle_path_list, parse_calls,
                   parse_data, organized_results, returned, error, agg, walk_order>>

\* CloneCall with a loop that stops at the first failed clone
CloneCallAborts ==
    /\ pc = "clone_repos"
    /\ idx <= Len(repo_urls)
    /\ LET clone_directory == CloneDirectory(repo_urls[idx][1])
           repo_url == repo_urls[idx][2]
       IN /\ ~PathExists(tree, clone_directory)
          /\ tmp_dir_list' = Append(tmp_dir_list, clone_directory)
          /\ \E return_code \in ExitCodes :
                /\ clone_calls' = Append(clone_calls,
                        [dir |-> clone_directory, url |-> repo_url,
                         rc |-> return_code])
                /\ IF return_code = 0
                   THEN /\ tree' = tree \cup Cloned(clone_directory, repo_url)
                        /\ idx' = idx + 1
                   ELSE /\ tree' = tree
                        /\ idx' = Len(repo_urls) + 1
    /\ UNCHANGED <<pc, repo_urls, search_patterns, pat,
                   matching_filepaths, codebundle_path_list, parse_calls,
                   parse_data, organized_results, returned, error, agg, walk_order>>

\* CloneCall without the os.path.exists test of line 12
CloneCallAlways ==
    /\ pc = "clone_repos"
    /\ idx <= Len(repo_urls)
    /\ LET clone_directory == CloneDirectory(repo_urls[idx][1])
           repo_url == repo_urls[idx][2]
       IN /\ tmp_dir_list' = Append(tmp_dir_list, clone_directory)
          /\ \E return_code \in ExitCodes :
                /\ clone_calls' = Append(clone_calls,
                        [dir |-> clone_directory, url |-> repo_url,
                         rc |-> return_code])
                /\ IF return_code = 0
                   THEN tree' = tree \cup Cloned(clone_directory, repo_url)
                   ELSE tree' = tree
    /\ idx' = idx + 1
    /\ UNCHANGED <<pc, repo_urls, search_patterns, pat,
                   matching_filepaths, codebundle_path_list, parse_calls,
                   parse_data, organized_results, returned, error, agg, walk_order>>

\* one iteration that runs git clone; whatever it returns the loop goes on
CloneCall ==
    /\ pc = "clone_repos"
    /\ idx <= Len(repo_urls)
    /\ LET clone_directory == CloneDirectory(repo_urls[idx][1])
           repo_url == repo_urls[idx][2]
       IN /\ ~PathExists(tree, clone_directory)
          /\ tmp_dir_list' = Append(tmp_dir_list, clone_directory)
          /\ \E return_code \in ExitCodes :
                /\ clone_calls' = Append(clone_calls,
                        [dir |-> clone_directory, url |-> repo_url,
                         rc |-> return_code])
                /\ IF return_code = 0
                   THEN tree' = tree \cup Cloned(clone_directory, repo_url)
                   ELSE \/ tree' = tree
                        \/ tree' = tree \cup
                              {AbsPath(PathJoin(clone_directory, ".git/HEAD"))}
    /\ idx' = idx + 1
    /\ UNCHANGED <<pc, repo_urls, search_patterns, pat,
                   matching_filepaths, codebundle_path_list, parse_calls,
                   parse_data, organized_results, returned, error, agg, walk_order>>

\* return tmp_dir_list
CloneReturn ==
    /\ pc = "clone_repos"
    /\ idx > Len(repo_urls)
    /\ pc' = "get_codebundle_paths"
    /\ idx' = 1
    /\ pat' = 1
    /\ UNCHANGED <<repo_urls, search_patterns, tree, tmp_dir_list, clone_calls,
                   matching_filepaths, codebundle_path_list, parse_calls,
                   parse_data, organized_results, returned, error, agg, walk_order>>

(***************************************************************************)
(* get_codebundle_paths                                                    *)
(***************************************************************************)
\* os.path.join(base, d1, d2, ...): the root os.walk reports for a directory
RECURSIVE JoinAll(_, _)
JoinAll(base, parts) ==
    IF Len(parts) = 0 THEN base
    ELSE JoinAll(PathJoin(base, Head(parts)), Tail(parts))

\* os.walk(repo_path): the (root, filename) pair of every regular file below
\* repo_path; root is spelled from repo_path as given, without normalising
Walk(fs, repo_path) ==
    LET top == AbsPath(repo_path)
        prefix == IF top = "/" THEN "/" ELSE top \o "/"
        below == {f \in fs : StartsWith(f, prefix)}
        Entry(f) ==
            LET rel == Split(SubSeq(f, Len(prefix) + 1, Len(f)), "/")
            IN [root |-> JoinAll(repo_path, SubSeq(rel, 1, Len(rel) - 1)),
                filename |-> rel[Len(rel)]]
    IN {Entry(f) : f \in below}

\* Matches without the exclusion test
MatchesSuffixOnly(root, filename, filename_pattern) ==
    EndsWith(filename, filename_pattern)

\* the condition of line 35
Matches(root, filename, filename_pattern) ==
    EndsWith(filename, filename_pattern) /\ ~Contains(root, "robot_tests")

\* the paths one walk of repo_path appends for one pattern
MatchedPaths(fs, repo_path, filename_pattern) ==
    {AbsPath(PathJoin(e.root, e.filename)) :
        e \in {w \in Walk(fs, repo_path) :
                  Matches(w.root, w.filename, filename_pattern)}}

\* a listing of a set
RECURSIVE SeqOf(_)
SeqOf(S) ==
    IF S = {} THEN << >>
    ELSE LET x == CHOOSE y \in S : TRUE IN <<x>> \o SeqOf(S \ {x})

Reverse(s) == [k \in 1..Len(s) |-> s[Len(s) + 1 - k]]

\* the order in which a walk meets the files: directory order is the
\* filesystem's choice, the same on every walk of one run
Listed(S, order) == IF order = "forward" THEN SeqOf(S) ELSE Reverse(SeqOf(S))

\* the elements of s that are not in the set seen, in order
RECURSIVE Unseen(_, _)
Unseen(s, seen) ==
    IF Len(s) = 0 THEN << >>
    ELSE IF Head(s) \in seen THEN Unseen(Tail(s), seen)
    ELSE <<Head(s)>> \o Unseen(Tail(s), seen)

\* LocateStep that appends a path only when the bucket does not hold it yet
LocateStepDeduplicates ==
    /\ pc = "get_codebundle_paths"
    /\ pat <= Len(search_patterns)
    /\ idx <= Len(tmp_dir_list)
    /\ LET repo_path == tmp_dir_list[idx]
           filename_pattern == search_patterns[pat]
           bucket == IF HasKey(matching_filepaths, repo_path)
                     THEN Get(matching_filepaths, repo_path) ELSE << >>
           found == Listed(MatchedPaths(tree, repo_path, filename_pattern),
                           walk_order)
       IN matching_filepaths' =
             DictSet(matching_filepaths, repo_path,
                     bucket \o Unseen(found, Range(bucket)))
    /\ IF idx = Len(tmp_dir_list)
       THEN idx' = 1 /\ pat' = pat + 1
       ELSE idx' = idx + 1 /\ pat' = pat
    /\ UNCHANGED <<pc, repo_urls, search_patterns, tree, tmp_dir_list,
                   clone_calls, codebundle_path_list, parse_calls, parse_data,
                   organized_results, returned, error, agg, walk_order>>

\* one (pattern, repo_path) iteration: lines 31-37
LocateStep ==
    /\ pc = "get_codebundle_paths"
    /\ pat <= Len(search_patterns)
    /\ idx <= Len(tmp_dir_list)
    /\ LET repo_path == tmp_dir_list[idx]
           filename_pattern == search_patterns[pat]
           bucket == IF HasKey(matching_filepaths, repo_path)
                     THEN Get(matching_filepaths, repo_path) ELSE << >>
           found == Listed(MatchedPaths(tree, repo_path, filename_pattern),
                           walk_order)
       IN matching_filepaths' =
             DictSet(matching_filepaths, repo_path, bucket \o found)
    /\ IF idx = Len(tmp_dir_list)
       THEN idx' = 1 /\ pat' = pat + 1
       ELSE idx' = idx + 1 /\ pat' = pat
    /\ UNCHANGED <<pc, repo_urls, search_patterns, tree, tmp_dir_list,
                   clone_calls, codebundle_path_list, parse_calls, parse_data,
                   organized_results, returned, error, agg, walk_order>>

\* [cb_path for cb_paths in d.values() for cb_path in cb_paths]
RECURSIVE FlattenValues(_)
FlattenValues(d) ==
    IF Len(d) = 0 THEN << >> ELSE d[1][2] \o FlattenValues(Tail(d))

\* return matching_filepaths, and line 110
LocateReturn ==
    /\ pc = "get_codebundle_paths"
    /\ pat > Len(search_patterns) \/ Len(tmp_dir_list) = 0
    /\ codebundle_path_list' = FlattenValues(matching_filepaths)
    /\ pc' = "parse_codebundles"
    /\ idx' = 1
    /\ UNCHANGED <<repo_urls, search_patterns, tree, pat, tmp_dir_list,
                   clone_calls, matching_filepaths, parse_calls, parse_data,
                   organized_results, returned, error, agg, walk_order>>

(***************************************************************************)
(* parse_codebundle, parse_codebundles                                     *)
(***************************************************************************)
\* for user_keyword in keywords: for keyword in user_keyword.body: append
RECURSIVE FlattenBodies(_)
FlattenBodies(keywords) ==
    IF Len(keywords) = 0 THEN << >>
    ELSE Head(keywords) \o FlattenBodies(Tail(keywords))

parse_codebundle(codebundle_path) ==
    LET test_suite == TestSuite(codebundle_path)
    IN IF test_suite.status = "error" THEN [status |-> "error"]
       ELSE [status |-> "ok",
             value |->
               [keywords |-> FlattenBodies(test_suite.keywords),
                tasks |-> [k \in 1..Len(test_suite.tests) |->
                             [name |-> test_suite.tests[k].name,
                              tags |-> test_suite.tests[k].tags,
                              doc |-> test_suite.tests[k].doc]],
                metadata |-> test_suite.metadata,
                doc |-> test_suite.doc]]

\* the try branch: parse_data[cb_path] = parse_codebundle(cb_path)
ParseOk ==
    /\ pc = "parse_codebundles"
    /\ idx <= Len(codebundle_path_list)
    /\ LET cb_path == codebundle_path_list[idx]
           r == parse_codebundle(cb_path)
       IN /\ r.status = "ok"
          /\ parse_data' = DictSet(parse_data, cb_path, r.value)
          /\ parse_calls' = Append(parse_calls, [path |-> cb_path, ok |-> TRUE])
    /\ idx' = idx + 1
    /\ UNCHANGED <<pc, repo_urls, search_patterns, tree, pat, tmp_dir_list,
                   clone_calls, matching_filepaths, codebundle_path_list,
                   organized_results, returned, error, agg, walk_order>>

\* ParseExcept without the try: the exception leaves parse_codebundles
ParseExceptPropagates ==
    /\ pc = "parse_codebundles"
    /\ idx <= Len(codebundle_path_list)
    /\ parse_codebundle(codebundle_path_list[idx]).status = "error"
    /\ parse_calls' = Append(parse_calls,
            [path |-> codebundle_path_list[idx], ok |-> FALSE])
    /\ pc' = "raised"
    /\ error' = "Exception"
    /\ UNCHANGED <<repo_urls, search_patterns, tree, idx, pat, tmp_dir_list,
                   clone_calls, matching_filepaths, codebundle_path_list,
                   parse_data, organized_results, returned, agg, walk_order>>

\* the except branch: log and go on
ParseExcept ==
    /\ pc = "parse_codebundles"
    /\ idx <= Len(codebundle_path_list)
    /\ LET cb_path == codebundle_path_list[idx]
           r == parse_codebundle(cb_path)
       IN /\ r.status = "error"
          /\ parse_calls' = Append(parse_calls, [path |-> cb_path, ok |-> FALSE])
    /\ idx' = idx + 1
    /\ UNCHANGED <<pc, repo_urls, search_patterns, tree, pat, tmp_dir_list,
                   clone_calls, matching_filepaths, codebundle_path_list,
                   parse_data, organized_results, returned, error, agg, walk_order>>

\* return parse_data
ParseReturn ==
    /\ pc = "parse_codebundles"
    /\ idx > Len(codebundle_path_list)
    /\ pc' = "readme_header"
    /\ idx' = 1
    /\ UNCHANGED <<repo_urls, search_patterns, tree, pat, tmp_dir_list,
                   clone_calls, matching_filepaths, codebundle_path_list,
                   parse_calls, parse_data, organized_results, returned, error, agg, walk_order>>

(***************************************************************************)
(* __main__ lines 115-118: the header file is read before organize_results *)
(***************************************************************************)
ReadHeader ==
    /\ pc = "readme_header"
    /\ pc' = "organize_results"
    /\ UNCHANGED <<repo_urls, search_patterns, tree, idx, pat, tmp_dir_list,
                   clone_calls, matching_filepaths, codebundle_path_list,
                   parse_calls, parse_data, organized_results, returned, error, agg, walk_order>>

\* open() raises when the header file is missing
ReadHeaderFails ==
    /\ pc = "readme_header"
    /\ pc' = "raised"
    /\ error' = "FileNotFoundError"
    /\ UNCHANGED <<repo_urls, search_patterns, tree, idx, pat, tmp_dir_list,
                   clone_calls, matching_filepaths, codebundle_path_list,
                   parse_calls, parse_data, organized_results, returned, agg, walk_order>>

(***************************************************************************)
(* organize_results                                                        *)
(***************************************************************************)
branch == "main"

\* the f-string that wraps x in backticks
BackQuote == SubSeq("`'", 1, 1)

Backtick(x) == BackQuote \o x \o BackQuote

\* line 72: the join of the one-element list holding name.split('-')[0], wrapped
DefaultSupports(name) == Join(", ", << Backtick(Split(name, "-")[1]) >>)

\* line 77: the join of v.strip(), wrapped, for v in metadata["Supports"].split(",")
MetadataSupports(value) ==
    LET vals == Split(value, ",")
    IN Join(", ", [k \in 1..Len(vals) |-> Backtick(Strip(vals[k]))])

\* RepoFileUrl that keeps the .git suffix
RepoFileUrlKeepsSuffix(repo_url, cb_path) ==
    repo_url \o "/blob/" \o branch \o "/" \o cb_path

\* line 78: f"{repo_url.removesuffix('.git')}/blob/{branch}/{cb_path}"
RepoFileUrl(repo_url, cb_path) ==
    RemoveSuffix(repo_url, ".git") \o "/blob/" \o branch \o "/" \o cb_path

\* the exception one iteration raises at lines 68-69, "" if none
LookupFailure(repo_mapping, cb_name) ==
    LET path_parts == Split(cb_name, "/")
    IN IF Len(path_parts) < 3 THEN "IndexError"
       ELSE IF ~HasKey(repo_mapping, path_parts[3]) THEN "KeyError"
       ELSE ""

\* CurrentResult with the default supports tag taken after the Canonical Name
\* override of name
CurrentResultTagsDisplayName(repo_mapping, cb_name, cb_data) ==
    LET path_parts == Split(cb_name, "/")
        repo_url == Get(repo_mapping, path_parts[3])
        cb_path == Join("/", LastN(path_parts, 3))
        metadata == cb_data.metadata
        name == IF HasKey(metadata, "Canonical Name")
                THEN Get(metadata, "Canonical Name")
                ELSE path_parts[Len(path_parts) - 1]
        supports == IF HasKey(metadata, "Supports")
                    THEN MetadataSupports(Get(metadata, "Supports"))
                    ELSE DefaultSupports(name)
        linked_name == "[" \o name \o "](" \o RepoFileUrl(repo_url, cb_path) \o ")"
    IN <<linked_name, supports, cb_data.doc>>

\* lines 67-80: current_result of one iteration that does not raise
CurrentResult(repo_mapping, cb_name, cb_data) ==
    LET path_parts == Split(cb_name, "/")
        repo_name == path_parts[3]
        repo_url == Get(repo_mapping, repo_name)
        cb_path == Join("/", LastN(path_parts, 3))
        name0 == path_parts[Len(path_parts) - 1]
        metadata == cb_data.metadata
        name == IF HasKey(metadata, "Canonical Name")
                THEN Get(metadata, "Canonical Name") ELSE name0
        supports == IF HasKey(metadata, "Supports")
                    THEN MetadataSupports(Get(metadata, "Supports"))
                    ELSE DefaultSupports(name0)
        repo_file_url == RepoFileUrl(repo_url, cb_path)
        linked_name == "[" \o name \o "](" \o repo_file_url \o ")"
    IN <<linked_name, supports, cb_data.doc>>

\* OrganizeStep with insert(0, current_result) in place of append
OrganizeStepPrepends ==
    /\ pc = "organize_results"
    /\ idx <= Len(parse_data)
    /\ LookupFailure(repo_urls, parse_data[idx][1]) = ""
    /\ organized_results' =
          <<CurrentResult(repo_urls, parse_data[idx][1], parse_data[idx][2])>>
              \o organized_results
    /\ idx' = idx + 1
    /\ UNCHANGED <<pc, repo_urls, search_patterns, tree, pat, tmp_dir_list,
                   clone_calls, matching_filepaths, codebundle_path_list,
                   parse_calls, parse_data, returned, error, agg, walk_order>>

\* one iteration that appends its row
OrganizeStep ==
    /\ pc = "organize_results"
    /\ idx <= Len(parse_data)
    /\ LET cb_name == parse_data[idx][1]
           cb_data == parse_data[idx][2]
       IN /\ LookupFailure(repo_urls, cb_name) = ""
          /\ organized_results' =
                Append(organized_results, CurrentResult(repo_urls, cb_name, cb_data))
    /\ idx' = idx + 1
    /\ UNCHANGED <<pc, repo_urls, search_patterns, tree, pat, tmp_dir_list,
                   clone_calls, matching_filepaths, codebundle_path_list,
                   parse_calls, parse_data, returned, error, agg, walk_order>>

\* OrganizeRaise with the failing path skipped (repo_mapping.get and continue)
OrganizeSkips ==
    /\ pc = "organize_results"
    /\ idx <= Len(parse_data)
    /\ LookupFailure(repo_urls, parse_data[idx][1]) # ""
    /\ idx' = idx + 1
    /\ UNCHANGED <<pc, repo_urls, search_patterns, tree, pat, tmp_dir_list,
                   clone_calls, matching_filepaths, codebundle_path_list,
                   parse_calls, parse_data, organized_results, returned, error,
                   agg, walk_order>>

\* one iteration whose lookup raises: nothing catches it, the run ends
OrganizeRaise ==
    /\ pc = "organize_results"
    /\ idx <= Len(parse_data)
    /\ LookupFailure(repo_urls, parse_data[idx][1]) # ""
    /\ error' = LookupFailure(repo_urls, parse_data[idx][1])
    /\ pc' = "raised"
    /\ UNCHANGED <<repo_urls, search_patterns, tree, idx, pat, tmp_dir_list,
                   clone_calls, matching_filepaths, codebundle_path_list,
                   parse_calls, parse_data, organized_results, returned, agg, walk_order>>

\* return organized_results
OrganizeReturn ==
    /\ pc = "organize_results"
    /\ idx > Len(parse_data)
    /\ returned' = [bound |-> TRUE, rows |-> organized_results]
    /\ pc' = "done"
    /\ UNCHANGED <<repo_urls, search_patterns, tree, idx, pat, tmp_dir_list,
                   clone_calls, matching_filepaths, codebundle_path_list,
                   parse_calls, parse_data, organized_results, error, agg, walk_order>>

Next ==
    \/ CloneSkip
    \/ CloneCall
    \/ CloneReturn
    \/ LocateStep
    \/ LocateReturn
    \/ ParseOk
    \/ ParseExcept
    \/ ParseReturn
    \/ ReadHeader
    \/ ReadHeaderFails
    \/ OrganizeStep
    \/ OrganizeRaise
    \/ OrganizeReturn

Spec == Init /\ [][Next]_vars

(***************************************************************************)
(* A call of aggregate on its own                                          *)
(***************************************************************************)
InitAgg ==
    /\ pc = "aggregate"
    /\ repo_urls = << >>
    /\ search_patterns = << >>
    /\ tree = {}
    /\ walk_order = "forward"
    /\ idx = 1
    /\ pat = 1
    /\ tmp_dir_list = << >>
    /\ clone_calls = << >>
    /\ matching_filepaths = << >>
    /\ codebundle_path_list = << >>
    /\ parse_calls = << >>
    /\ parse_data = << >>
    /\ organized_results = << >>
    /\ returned = [bound |-> FALSE, rows |-> << >>]
    /\ error = ""
    /\ \E m \in Methods, c \in Columns :
          agg = [method |-> m, column |-> c, called |-> FALSE, result |-> NoneValue]

Aggregate ==
    /\ pc = "aggregate"
    /\ ~agg.called
    /\ agg' = [agg EXCEPT !.called = TRUE,
                          !.result = aggregate(agg.method, agg.column)]
    /\ UNCHANGED <<pc, repo_urls, search_patterns, tree, idx, pat, tmp_dir_list,
                   clone_calls, matching_filepaths, codebundle_path_list,
                   parse_calls, parse_data, organized_results, returned, error, walk_order>>

NextAgg == Aggregate

SpecAgg == InitAgg /\ [][NextAgg]_vars

(***************************************************************************)
(* Properties                                                              *)
(***************************************************************************)
\* parse_codebundles has returned
AfterParse == pc \in {"readme_header", "organize_results", "done", "raised"}

\* C1: parse_codebundles never stops at a path that fails to parse: every
\* path of the input list is parsed, in order, also after a failing one; the
\* keys of the mapping it returns are exactly the input paths whose parse
\* succeeded, each once, each mapped to what the loader read from that path.
C1_ParseIsolation ==
    AfterParse =>
        /\ Len(parse_calls) = Len(codebundle_path_list)
        /\ \A k \in 1..Len(parse_calls) :
              parse_calls[k].path = codebundle_path_list[k]
        /\ {parse_data[k][1] : k \in 1..Len(parse_data)} =
              {p \in Range(codebundle_path_list) : TestSuite(p).status = "ok"}
        /\ \A k1, k2 \in 1..Len(parse_data) :
              parse_data[k1][1] = parse_data[k2][1] => k1 = k2
        /\ \A k \in 1..Len(parse_data) :
              /\ parse_data[k][2].doc = TestSuite(parse_data[k][1]).doc
              /\ parse_data[k][2].metadata = TestSuite(parse_data[k][1]).metadata

\* a batch in which a path failed to parse and a later one was parsed
C1_Witness ==
    /\ AfterParse
    /\ \E k1, k2 \in 1..Len(parse_calls) :
          k1 < k2 /\ ~parse_calls[k1].ok /\ parse_calls[k2].ok
    /\ Len(parse_data) >= 2

\* C2: clone_repos does not stop at a failed clone: whatever the exit codes,
\* it returns one local path per mapping entry, in mapping order, the paths
\* of failed clones included, and an entry whose directory is still missing
\* at the end did have its clone attempted.
C2_CloneContinues ==
    pc # "clone_repos" =>
        /\ Len(tmp_dir_list) = Len(repo_urls)
        /\ \A k \in 1..Len(repo_urls) :
              /\ tmp_dir_list[k] = "/tmp/" \o repo_urls[k][1]
              /\ ~PathExists(tree, tmp_dir_list[k]) =>
                    \E c \in 1..Len(clone_calls) :
                        /\ clone_calls[c].dir = tmp_dir_list[k]
                        /\ clone_calls[c].rc # 0

\* two entries, the first clone failed, the second was still attempted
C2_Witness ==
    /\ pc = "get_codebundle_paths"
    /\ Len(repo_urls) = 2
    /\ Len(clone_calls) = 2
    /\ clone_calls[1].rc # 0
    /\ tmp_dir_list = <<clone_calls[1].dir, clone_calls[2].dir>>

\* every local directory of the mapping exists
AllDirectoriesExist ==
    \A k \in 1..Len(repo_urls) : PathExists(tree, "/tmp/" \o repo_urls[k][1])

\* C3: git clone is invoked only for the entry being processed and only when
\* its local directory does not exist at that moment; an entry whose
\* directory exists is appended without a clone; and when every local
\* directory exists at the start, no clone is ever invoked and one path per
\* entry is returned.
C3_CloneOnlyWhenAbsent ==
    /\ [][ /\ clone_calls' # clone_calls =>
                /\ pc = "clone_repos" /\ idx <= Len(repo_urls)
                /\ ~PathExists(tree, "/tmp/" \o repo_urls[idx][1])
                /\ clone_calls' = Append(clone_calls, clone_calls'[Len(clone_calls')])
                /\ clone_calls'[Len(clone_calls')].dir = "/tmp/" \o repo_urls[idx][1]
           /\ ( /\ pc = "clone_repos" /\ idx <= Len(repo_urls)
                /\ PathExists(tree, "/tmp/" \o repo_urls[idx][1]) ) =>
                /\ clone_calls' = clone_calls
                /\ tmp_dir_list' = Append(tmp_dir_list, "/tmp/" \o repo_urls[idx][1])
         ]_vars
    /\ AllDirectoriesExist =>
          [](/\ clone_calls = << >>
             /\ pc # "clone_repos" => Len(tmp_dir_list) = Len(repo_urls))

\* a run over two entries whose directories both existed: no clone was made
C3_Witness ==
    /\ pc = "get_codebundle_paths"
    /\ Len(repo_urls) = 2
    /\ AllDirectoriesExist
    /\ clone_calls = << >>
    /\ Len(tmp_dir_list) = 2

\* the paths get_codebundle_paths returns, all buckets together
ReturnedPaths == UNION {Range(matching_filepaths[k][2]) : k \in 1..Len(matching_filepaths)}

\* a path without its last segment
DirPart(p) ==
    LET parts == Split(p, "/") IN Join("/", SubSeq(parts, 1, Len(parts) - 1))

LastSegment(p) == LET parts == Split(p, "/") IN parts[Len(parts)]

\* C4 as stated: no returned path has a segment robot_tests
C4_NoReservedSegment ==
    \A p \in ReturnedPaths : "robot_tests" \notin Range(Split(p, "/"))

\* C4 as amended: no returned file lies in a directory whose path contains
\* robot_tests; the file's own name is not examined.
C4_NoReservedDirectory ==
    \A p \in ReturnedPaths : ~Contains(DirPart(p), "robot_tests")

\* a walk that met a matching file below a robot_tests directory and left it
\* out, and returned a file that is itself named robot_tests
C4_Witness ==
    /\ pc = "parse_codebundles"
    /\ \E f \in tree, k \in 1..Len(tmp_dir_list), j \in 1..Len(search_patterns) :
          /\ StartsWith(f, tmp_dir_list[k] \o "/")
          /\ Contains(DirPart(f), "robot_tests")
          /\ EndsWith(f, search_patterns[j])
          /\ f \notin ReturnedPaths
    /\ \E p \in ReturnedPaths : LastSegment(p) = "robot_tests"

\* the third component of a parsed path names an entry of the repo mapping
ThirdComponentKnown(cb_name) ==
    LET parts == Split(cb_name, "/")
    IN /\ Len(parts) >= 3
       /\ \E k \in 1..Len(repo_urls) : repo_urls[k][1] = parts[3]

AllKeysKnown == \A k \in 1..Len(parse_data) : ThirdComponentKnown(parse_data[k][1])

LookupErrors == {"KeyError", "IndexError"}

\* organize_results was called and has ended
OrganizeEnded == pc = "done" \/ (pc = "raised" /\ error # "FileNotFoundError")

C6_OneRowPerEntry ==
    /\ pc = "organize_results" =>
          /\ Len(organized_results) = idx - 1
          /\ \A i \in 1..Len(organized_results) :
                organized_results[i][3] = parse_data[i][2].doc
    /\ (OrganizeEnded /\ AllKeysKnown) =>
          /\ pc = "done"
          /\ returned.bound
          /\ Len(returned.rows) = Len(parse_data)
          /\ \A i \in 1..Len(parse_data) :
                returned.rows[i][3] = parse_data[i][2].doc

\* rows were returned for entries with different docs
C6_Witness ==
    /\ pc = "done"
    /\ Len(returned.rows) >= 2
    /\ \E i, j \in 1..Len(returned.rows) : returned.rows[i][3] # returned.rows[j][3]

Least(S) == CHOOSE x \in S : \A y \in S : x <= y
Greatest(S) == CHOOSE x \in S : \A y \in S : x >= y

\* the positions of character c in v
Positions(v, c) == {i \in 1..Len(v) : SubSeq(v, i, i) = c}

\* the k-th comma-separated field of v, counted from 1
Field(v, k) ==
    LET commas == Positions(v, ",")
        nth(n) == CHOOSE i \in commas : Cardinality({j \in commas : j <= i}) = n
    IN SubSeq(v,
              IF k = 1 THEN 1 ELSE nth(k - 1) + 1,
              IF k = Cardinality(commas) + 1 THEN Len(v) ELSE nth(k) - 1)

\* t without its leading and trailing blanks and tabs
Trimmed(t) ==
    LET solid == {i \in 1..Len(t) : SubSeq(t, i, i) \notin {" ", "\t"}}
    IN IF solid = {} THEN "" ELSE SubSeq(t, Least(solid), Greatest(solid))

\* fields k.. of v, each trimmed and wrapped in backticks, joined by ", "
RECURSIVE Rendered(_, _)
Rendered(v, k) ==
    BackQuote \o Trimmed(Field(v, k)) \o BackQuote \o
        (IF k = Cardinality(Positions(v, ",")) + 1 THEN ""
         ELSE ", " \o Rendered(v, k + 1))

\* the token before the first hyphen of the second-to-last segment of a path
PathTag(cb_name) ==
    LET slashes == Positions(cb_name, "/")
        last == Greatest(slashes)
        prev == Greatest({i \in slashes : i < last})
        segment == SubSeq(cb_name, prev + 1, last - 1)
        hyphens == Positions(segment, "-")
    IN IF hyphens = {} THEN segment ELSE SubSeq(segment, 1, Least(hyphens) - 1)

MetadataValue(metadata, key) ==
    metadata[CHOOSE k \in 1..Len(metadata) : metadata[k][1] = key][2]

HasMetadata(metadata, key) == \E k \in 1..Len(metadata) : metadata[k][1] = key

\* C7: the supports field of every row is, when the metadata has a Supports
\* key, its value split at commas, each part trimmed, wrapped in backticks,
\* joined with ", " in input order; otherwise the backtick-wrapped token
\* before the first hyphen of the path's second-to-last segment, also when a
\* Canonical Name replaces the display name.
C7_Supports ==
    \A i \in 1..Len(organized_results) :
        LET cb_name == parse_data[i][1]
            metadata == parse_data[i][2].metadata
            supports == organized_results[i][2]
        IN /\ HasMetadata(metadata, "Supports") =>
                 supports = Rendered(MetadataValue(metadata, "Supports"), 1)
           /\ ~HasMetadata(metadata, "Supports") =>
                 supports = BackQuote \o PathTag(cb_name) \o BackQuote
           /\ EndsWith(cb_name, "/k8s-deployment-healthcheck/sli.robot") =>
                 supports = BackQuote \o "k8s" \o BackQuote
           /\ EndsWith(cb_name, "/gcp-bundle/runbook.robot") =>
                 supports = BackQuote \o "gcp" \o BackQuote
           /\ EndsWith(cb_name, "/bundle/suite.robot") =>
                 supports = BackQuote \o "k8s" \o BackQuote \o ", " \o
                            BackQuote \o "aws" \o BackQuote \o ", " \o
                            BackQuote \o "gcp" \o BackQuote

\* rows built from a Supports value and from a path whose suite carries a
\* Canonical Name and no Supports
C7_Witness ==
    \E i, j \in 1..Len(organized_results) :
        /\ HasMetadata(parse_data[i][2].metadata, "Supports")
        /\ Positions(MetadataValue(parse_data[i][2].metadata, "Supports"), ",") # {}
        /\ ~HasMetadata(parse_data[j][2].metadata, "Supports")
        /\ HasMetadata(parse_data[j][2].metadata, "Canonical Name")

\* C8: the link target of every row is the repo URL without one trailing
\* .git (unchanged when it has none), then /blob/main/, then the last three
\* segments of the path joined by /.
C8_LinkTarget ==
    \A i \in 1..Len(organized_results) :
        LET cb_name == parse_data[i][1]
            metadata == parse_data[i][2].metadata
            parts == Split(cb_name, "/")
            url == repo_urls[CHOOSE k \in 1..Len(repo_urls) :
                                repo_urls[k][1] = parts[3]][2]
            n == Len(url)
            base == IF n >= 4 /\ SubSeq(url, n - 3, n) = ".git"
                    THEN SubSeq(url, 1, n - 4) ELSE url
            m == Len(parts)
            tail3 == parts[m - 2] \o "/" \o parts[m - 1] \o "/" \o parts[m]
            name == IF HasMetadata(metadata, "Canonical Name")
                    THEN MetadataValue(metadata, "Canonical Name")
                    ELSE parts[m - 1]
            linked_name == organized_results[i][1]
        IN /\ linked_name = "[" \o name \o "](" \o base \o "/blob/main/" \o tail3 \o ")"
           /\ (url = "https://example.com/org/repo.git"
                 /\ EndsWith(cb_name, "/group/bundle/suite.robot")) =>
                 linked_name = "[Bundle](https://example.com/org/repo/blob/main/group/bundle/suite.robot)"
           /\ (url = "https://example.com/org/x.git.git"
                 /\ cb_name = "/tmp/b/lib/empty.robot") =>
                 linked_name = "[lib](https://example.com/org/x.git/blob/main/b/lib/empty.robot)"

\* rows linked to a URL that ends in .git and to one that does not
C8_Witness ==
    \E i, j \in 1..Len(organized_results) :
        /\ Contains(organized_results[i][1], "(https://example.com/org/repo/blob/main/")
        /\ Contains(organized_results[j][1], "(https://example.com/org/other/blob/main/")

\* sum of the first n elements
RECURSIVE Total(_, _)
Total(column, n) == IF n = 0 THEN 0 ELSE column[n] + Total(column, n - 1)

\* C9: for a non-empty column of integers, aggregate("Average", column) is
\* the arithmetic mean (the value m with m * len = sum) and
\* aggregate("Max", column) is an element no other exceeds; Average of
\* [2, 4, 6] is 4 and Max of [1, 9, 3] is 9.
C9_AverageAndMax ==
    (agg.called /\ Len(agg.column) > 0) =>
        /\ agg.method = "Average" =>
              /\ agg.result.kind = "float"
              /\ agg.result.den > 0
              /\ agg.result.num * Len(agg.column) =
                    agg.result.den * Total(agg.column, Len(agg.column))
        /\ agg.method = "Max" =>
              /\ agg.result.kind = "int"
              /\ agg.result.den = 1
              /\ agg.result.num \in Range(agg.column)
              /\ \A x \in Range(agg.column) : x <= agg.result.num
        /\ (agg.method = "Average" /\ agg.column = <<2, 4, 6>>) =>
              agg.result.num = 4 /\ agg.result.den = 1
        /\ (agg.method = "Max" /\ agg.column = <<1, 9, 3>>) =>
              agg.result.num = 9

\* the call aggregate("Average", [2, 4, 6]) has returned 4
C9_Witness ==
    /\ agg.called
    /\ agg.method = "Average"
    /\ agg.column = <<2, 4, 6>>
    /\ agg.result.num = 4
    /\ agg.result.den = 1

\* no local directory name contains a slash
NoSlashInNames == \A k \in 1..Len(repo_urls) : ~Contains(repo_urls[k][1], "/")

\* no local directory name contains a slash or is empty, "." or ".."
PlainNames ==
    \A k \in 1..Len(repo_urls) :
        /\ ~Contains(repo_urls[k][1], "/")
        /\ repo_urls[k][1] \notin {"", ".", ".."}

\* C10 as stated: when no local directory name contains a slash, every key
\* of the parse results has a third component that is a key of the repo
\* mapping, and organize_results never hits the lookup failure
C10_TraceableNoSlash ==
    NoSlashInNames => (AllKeysKnown /\ error \notin LookupErrors)

\* C10 as amended: when no local directory name contains a slash or is empty,
\* "." or "..", every key of the parse results lies below the local
\* directory of exactly one entry of the repo mapping, the one its third
\* component names, and organize_results never hits the lookup failure.
C10_TraceablePlainNames ==
    PlainNames =>
        /\ error \notin LookupErrors
        /\ \A i \in 1..Len(parse_data) :
              LET parts == Split(parse_data[i][1], "/")
              IN /\ Len(parts) >= 3
                 /\ Cardinality({k \in 1..Len(repo_urls) :
                                    repo_urls[k][1] = parts[3]}) = 1
                 /\ StartsWith(parse_data[i][1], "/tmp/" \o parts[3] \o "/")
                 /\ ("/tmp/" \o parts[3]) \in Range(tmp_dir_list)

\* a whole run over two plainly named repositories that returned rows
C10_Witness ==
    /\ pc = "done"
    /\ PlainNames
    /\ Len(repo_urls) = 2
    /\ Len(returned.rows) >= 2
    /\ \E i, j \in 1..Len(parse_data) :
          Split(parse_data[i][1], "/")[3] # Split(parse_data[j][1], "/")[3]

\* get_codebundle_paths has just returned (its result does not change later)
AfterLocate == pc = "parse_codebundles" /\ parse_calls = << >>

\* how many times x occurs in the list s
Occurrences(s, x) == Cardinality({i \in 1..Len(s) : s[i] = x})

\* the files of the filesystem below the directory a root names
FilesBelow(root) ==
    LET top == AbsPath(root)
        prefix == IF top = "/" THEN "/" ELSE top \o "/"
    IN {f \in tree : StartsWith(f, prefix)}

\* the number of search patterns whose suffix ends the name of file f
MatchingPatterns(f) ==
    Cardinality({j \in 1..Len(search_patterns) :
                    EndsWith(LastSegment(f), search_patterns[j])})

\* in every bucket, a file below the root that is not in a robot_tests
\* directory occurs once per search pattern its name ends with, an excluded
\* one never, and nothing else is in the bucket
BucketsCountMatches ==
    \A k \in 1..Len(matching_filepaths) :
        LET root == matching_filepaths[k][1]
            bucket == matching_filepaths[k][2]
        IN /\ Range(bucket) \subseteq FilesBelow(root)
           /\ \A f \in FilesBelow(root) :
                 Occurrences(bucket, f) =
                    IF Contains(DirPart(f), "robot_tests") THEN 0
                    ELSE MatchingPatterns(f)

\* C11 as stated: one bucket per root, a file matched by k patterns occurs k
\* times in its root's bucket, and every root passed in has a bucket, also
\* when nothing matched
C11_BucketForEveryRoot ==
    AfterLocate =>
        /\ BucketsCountMatches
        /\ [k \in 1..Len(matching_filepaths) |-> matching_filepaths[k][1]]
              = tmp_dir_list

\* C11 as amended: as stated when there is at least one search pattern; with
\* no search pattern the result is empty and no root has a bucket.
C11_BucketsAccumulate ==
    AfterLocate =>
        /\ BucketsCountMatches
        /\ Len(search_patterns) > 0 =>
              [k \in 1..Len(matching_filepaths) |-> matching_filepaths[k][1]]
                 = tmp_dir_list
        /\ Len(search_patterns) = 0 => matching_filepaths = << >>

\* two patterns matched the same file, which is twice in its root's bucket,
\* and another root has an empty bucket
C11_Witness ==
    /\ AfterLocate
    /\ \E k \in 1..Len(matching_filepaths) :
          \E f \in FilesBelow(matching_filepaths[k][1]) :
              /\ MatchingPatterns(f) = 2
              /\ Occurrences(matching_filepaths[k][2], f) = 2
    /\ \E k \in 1..Len(matching_filepaths) : matching_filepaths[k][2] = << >>

====
